---- MODULE Spec2Model ----
(***************************************************************************)
(* Semantic Similarity with BERT (examples/nlp/semantic_similarity_with_   *)
(* bert.py): the data preparation, the DataGenerator batch generator, the  *)
(* model construction, the training / evaluation driver and the inference  *)
(* helper check_similarity.                                                *)
(*                                                                         *)
(* A sentence is its sequence of word-piece ids.  Array positions are      *)
(* 1-based in TLA+, the values held in gen.indexes are the 0-based numpy   *)
(* indices of the source.                                                  *)
(***************************************************************************)
EXTENDS Integers, Sequences, FiniteSets, TLC

VARIABLES
    pc,          \* position in the script
    csv,         \* the three CSV files as read (lines 54-56)
    train_df, valid_df, test_df,
    y_train, y_val, y_test,
    model,       \* the model and how its construction went
    train_data, valid_data, test_data,
    fit,         \* progress of fit_generator / evaluate_generator
    calls,       \* check_similarity calls made
    result,      \* what the last check_similarity call returned
    gen,         \* a DataGenerator taken on its own
    lastItem     \* what the last __getitem__ call returned

dataVars == <<csv, train_df, valid_df, test_df, y_train, y_val, y_test>>
runVars == <<model, train_data, valid_data, test_data, fit, calls, result>>
scriptVars == <<pc, dataVars, runVars>>
vars == <<scriptVars, gen, lastItem>>

----------------------------------------------------------------------------
(* Configuration (source lines 37-43).                                     *)

MAXLEN == 128

\* BATCH_SIZE is 32 in the source; the model runs it scaled down.
BATCH_SIZE == 2

(* Special ids of the bert-base-uncased vocabulary.                        *)
CLS == 101
SEP == 102
PAD == 0

----------------------------------------------------------------------------
(* Bounds of the model.                                                    *)

MaxExamples == 3
MaxBatch == 3

----------------------------------------------------------------------------
(* Helpers.                                                                *)

Min(a, b) == IF a <= b THEN a ELSE b

Range(s) == {s[k] : k \in 1..Len(s)}

Const(n, v) == [k \in 1..n |-> v]

\* Python s[lo:hi] for 0 <= lo <= hi.
Slice(s, lo, hi) ==
    LET a == Min(lo, Len(s))
        z == Min(hi, Len(s))
    IN  [k \in 1..(z - a) |-> s[a + k]]

\* numpy fancy indexing a[indexes] with 0-based indexes.
Take(a, indexes) == [k \in 1..Len(indexes) |-> a[indexes[k] + 1]]

\* np.arange(n)
Arange(n) == [k \in 1..n |-> k - 1]

Perms(n) == {p \in [1..n -> 1..n] : \A i, j \in 1..n : p[i] = p[j] => i = j}

\* Faulty variant of Shuffle: draws with replacement.
ShuffleResample(a) == [1..Len(a) -> Range(a)]

\* np.random.shuffle(a): the orders it can leave a in.
Shuffle(a) == {[k \in 1..Len(a) |-> a[p[k]]] : p \in Perms(Len(a))}

----------------------------------------------------------------------------
(* The tokenizer call of __getitem__.                                      *)

\* padding=True pads to the longest sequence, here the pair itself, and
\* pad_to_multiple_of rounds that length up to a multiple of MAXLEN.
\* truncation is not passed, so nothing is cut.
PaddedLength(n) ==
    IF n % MAXLEN # 0 THEN ((n \div MAXLEN) + 1) * MAXLEN ELSE n

EncodePlus(s1, s2) ==
    LET ids   == <<CLS>> \o s1 \o <<SEP>> \o s2 \o <<SEP>>
        types == Const(Len(s1) + 2, 0) \o Const(Len(s2) + 1, 1)
        n     == Len(ids)
        pad   == PaddedLength(n) - n
    IN  [input_ids      |-> ids \o Const(pad, PAD),
         attention_mask |-> Const(n, 1) \o Const(pad, 0),
         token_type_ids |-> types \o Const(pad, 0)]

----------------------------------------------------------------------------
(* DataGenerator.                                                          *)

None == [isNone |-> TRUE, rows |-> <<>>]
Some(a) == [isNone |-> FALSE, rows |-> a]

\* Faulty variant of GenLen: rounds the batch count up.
GenLenCeil(g) == (Len(g.sentence1) + g.batch_size - 1) \div g.batch_size

\* __len__
GenLen(g) == Len(g.sentence1) \div g.batch_size

\* Faulty variant of OnEpochEnd: shuffles whatever the flag says.
OnEpochEndAlways(g) ==
    {[g EXCEPT !.indexes = ix] : ix \in Shuffle(Arange(Len(g.sentence1)))}

\* on_epoch_end: the generators it can leave behind.
OnEpochEnd(g) ==
    LET fresh == Arange(Len(g.sentence1))
    IN  IF g.shuffle
        THEN {[g EXCEPT !.indexes = ix] : ix \in Shuffle(fresh)}
        ELSE {[g EXCEPT !.indexes = fresh]}

\* __init__
NewGenerator(s1, s2, labels, batch_size, shuffle, train) ==
    OnEpochEnd([sentence1  |-> s1,
                sentence2  |-> s2,
                labels     |-> labels,
                shuffle    |-> shuffle,
                batch_size |-> batch_size,
                train      |-> train,
                indexes    |-> <<>>])

NoItem ==
    [kind |-> "none", idx |-> 0, indexes |-> <<>>, input_ids |-> <<>>,
     masks |-> <<>>, token_type_ids |-> <<>>, hasLabels |-> FALSE,
     labels |-> <<>>, labelsRead |-> FALSE]

\* np.array over rows of unequal length raises.
Ragged(rows) == \E j, k \in 1..Len(rows) : Len(rows[j]) # Len(rows[k])

\* Faulty variant of GetItem: the labels are taken from the unshuffled positions.
GetItemUnshuffledLabels(g, idx) ==
    LET b       == g.batch_size
        indexes == Slice(g.indexes, idx * b, (idx + 1) * b)
        enc     == [k \in 1..Len(indexes) |->
                      EncodePlus(Take(g.sentence1, indexes)[k],
                                 Take(g.sentence2, indexes)[k])]
        ids     == [k \in 1..Len(enc) |-> enc[k].input_ids]
        plain   == Slice(Arange(Len(g.sentence1)), idx * b, (idx + 1) * b)
    IN  [NoItem EXCEPT !.kind = "batch", !.idx = idx, !.indexes = indexes,
           !.input_ids = ids,
           !.masks = [k \in 1..Len(enc) |-> enc[k].attention_mask],
           !.token_type_ids = [k \in 1..Len(enc) |-> enc[k].token_type_ids],
           !.hasLabels = TRUE, !.labelsRead = TRUE,
           !.labels = IF g.labels.isNone THEN <<>>
                      ELSE Take(g.labels.rows, plain)]

\* __getitem__
GetItem(g, idx) ==
    LET b         == g.batch_size
        indexes   == Slice(g.indexes, idx * b, (idx + 1) * b)
        sentence1 == Take(g.sentence1, indexes)
        sentence2 == Take(g.sentence2, indexes)
        enc       == [k \in 1..Len(indexes) |->
                        EncodePlus(sentence1[k], sentence2[k])]
        ids       == [k \in 1..Len(enc) |-> enc[k].input_ids]
        features  == [NoItem EXCEPT !.kind = "batch", !.idx = idx,
                        !.indexes = indexes,
                        !.input_ids = ids,
                        !.masks = [k \in 1..Len(enc) |-> enc[k].attention_mask],
                        !.token_type_ids =
                            [k \in 1..Len(enc) |-> enc[k].token_type_ids]]
    IN  IF Ragged(ids)
        THEN [NoItem EXCEPT !.kind = "error", !.idx = idx, !.indexes = indexes]
        ELSE IF g.train
        THEN IF g.labels.isNone
             THEN [NoItem EXCEPT !.kind = "error", !.idx = idx,
                     !.indexes = indexes, !.labelsRead = TRUE]
             ELSE [features EXCEPT !.hasLabels = TRUE, !.labelsRead = TRUE,
                     !.labels = Take(g.labels.rows, indexes)]
        ELSE features

----------------------------------------------------------------------------
(* Inputs of the generator specification.                                  *)

Sent(n, t) == [k \in 1..n |-> t]

ShortSent == Sent(1, 2000)
MidSent == Sent(3, 3000)
LongSent == Sent(MAXLEN - 4, 4000)

OneHot(c) == [k \in 1..3 |-> IF k = c + 1 THEN 1 ELSE 0]

\* (sentence1, sentence2, one-hot label) triples the arrays are filled with.
Examples ==
    {<<ShortSent, ShortSent, OneHot(1)>>,
     <<ShortSent, LongSent, OneHot(0)>>,
     <<MidSent, LongSent, OneHot(2)>>}

Datasets == UNION {[1..n -> Examples] : n \in 0..MaxExamples}

Column(d, c) == [k \in 1..Len(d) |-> d[k][c]]

----------------------------------------------------------------------------
(* Data preparation (lines 54-129).  A data frame is its rows in order and *)
(* its "label" column once that is assigned.                               *)

NaN == <<-1>>

\* str(NaN) is the word "nan".
NanWord == Sent(1, 1000)

Row(s1, s2, similarity) ==
    [sentence1 |-> s1, sentence2 |-> s2, similarity |-> similarity]

Frame(rows) == [rows |-> rows, label |-> None]

NotNa(r) == r.sentence1 # NaN /\ r.sentence2 # NaN

\* df.dropna(axis=0)
DropNaRows(rows) == SelectSeq(rows, NotNa)

HasMajority(r) == r.similarity # "-"

\* df[df.similarity != "-"]
FilterRows(rows) == SelectSeq(rows, HasMajority)

\* .sample(frac=1.0, random_state=42).reset_index(drop=True): all rows in a
\* pseudo-random order, renumbered.
Sample(rows) == Shuffle(rows)

\* lambda x: 0 if x == "contradiction" else 1 if x == "entailment" else 2
LabelOf(x) == IF x = "contradiction" THEN 0 ELSE IF x = "entailment" THEN 1 ELSE 2

\* df["similarity"].apply(...)
LabelColumn(rows) == [k \in 1..Len(rows) |-> LabelOf(rows[k].similarity)]

\* tf.keras.utils.to_categorical(labels, num_classes)
ToCategorical(labels, num_classes) ==
    [k \in 1..Len(labels) |->
        [c \in 1..num_classes |-> IF c = labels[k] + 1 THEN 1 ELSE 0]]

\* df["label"] = ...; y = to_categorical(df.label, num_classes=3)
WithLabels(df) == [df EXCEPT !.label = Some(LabelColumn(df.rows))]

\* df.sentence1.astype("str")
Str(s) == IF s = NaN THEN NanWord ELSE s

Sentence1(df) == [k \in 1..Len(df.rows) |-> Str(df.rows[k].sentence1)]
Sentence2(df) == [k \in 1..Len(df.rows) |-> Str(df.rows[k].sentence2)]

DropNa ==
    /\ pc = "dropna"
    /\ train_df' = [train_df EXCEPT !.rows = DropNaRows(train_df.rows)]
    /\ pc' = "filter_train"
    /\ UNCHANGED <<csv, valid_df, test_df, y_train, y_val, y_test,
                   runVars, gen, lastItem>>

FilterTrain ==
    /\ pc = "filter_train"
    /\ \E rows \in Sample(FilterRows(train_df.rows)) :
          train_df' = [train_df EXCEPT !.rows = rows]
    /\ pc' = "filter_valid"
    /\ UNCHANGED <<csv, valid_df, test_df, y_train, y_val, y_test,
                   runVars, gen, lastItem>>

FilterValid ==
    /\ pc = "filter_valid"
    /\ \E rows \in Sample(FilterRows(valid_df.rows)) :
          valid_df' = [valid_df EXCEPT !.rows = rows]
    /\ pc' = "encode_train"
    /\ UNCHANGED <<csv, train_df, test_df, y_train, y_val, y_test,
                   runVars, gen, lastItem>>

EncodeTrain ==
    /\ pc = "encode_train"
    /\ train_df' = WithLabels(train_df)
    /\ y_train' = Some(ToCategorical(LabelColumn(train_df.rows), 3))
    /\ pc' = "encode_valid"
    /\ UNCHANGED <<csv, valid_df, test_df, y_val, y_test, runVars, gen, lastItem>>

EncodeValid ==
    /\ pc = "encode_valid"
    /\ valid_df' = WithLabels(valid_df)
    /\ y_val' = Some(ToCategorical(LabelColumn(valid_df.rows), 3))
    /\ pc' = "encode_test"
    /\ UNCHANGED <<csv, train_df, test_df, y_train, y_test, runVars, gen, lastItem>>

EncodeTest ==
    /\ pc = "encode_test"
    /\ test_df' = WithLabels(test_df)
    /\ y_test' = Some(ToCategorical(LabelColumn(test_df.rows), 3))
    /\ pc' = "encoded"
    /\ UNCHANGED <<csv, train_df, valid_df, y_train, y_val, runVars, gen, lastItem>>

----------------------------------------------------------------------------
(* Values of the variables a specification does not use.                   *)

NoGen == [made |-> FALSE]
NoModel == [kind |-> "none", strategy |-> "untried", scoped |-> "untried",
            fallback |-> "untried"]
NoFit == [steps_per_epoch |-> 0, validation_steps |-> 0, eval_steps |-> 0,
          epoch |-> 0, step |-> 0, vstep |-> 0, estep |-> 0, requested |-> {}]
NoResult == [made |-> FALSE]

RunIdle ==
    /\ model = NoModel
    /\ train_data = NoGen /\ valid_data = NoGen /\ test_data = NoGen
    /\ fit = NoFit
    /\ calls = 0
    /\ result = NoResult

GenIdle == gen = NoGen /\ lastItem = NoItem

----------------------------------------------------------------------------
(* The data preparation on its own, from the files as read.                *)

MaxRows == 2

RowKinds ==
    {Row(ShortSent, MidSent, "contradiction"),
     Row(MidSent, ShortSent, "entailment"),
     Row(ShortSent, ShortSent, "neutral"),
     Row(MidSent, MidSent, "-")}

NaRow == Row(ShortSent, NaN, "neutral")

Files(kinds) == UNION {[1..n -> kinds] : n \in 0..MaxRows}

InitPrep ==
    /\ pc = "dropna"
    /\ \E tr \in Files(RowKinds \cup {NaRow}), va \in Files(RowKinds),
          te \in Files(RowKinds) :
          /\ csv = [train |-> tr, valid |-> va, test |-> te]
          /\ train_df = Frame(tr)
          /\ valid_df = Frame(va)
          /\ test_df = Frame(te)
    /\ y_train = None /\ y_val = None /\ y_test = None
    /\ RunIdle
    /\ GenIdle

NextPrep ==
    \/ DropNa
    \/ FilterTrain
    \/ FilterValid
    \/ EncodeTrain
    \/ EncodeValid
    \/ EncodeTest

SpecPrep == InitPrep /\ [][NextPrep]_vars

----------------------------------------------------------------------------
(* Model construction (lines 271-281).  build_model() either returns a     *)
(* compiled model or raises (loading the pretrained weights can fail), and *)
(* so can tf.distribute.MirroredStrategy().                                *)

TryStrategy ==
    /\ pc = "try_strategy"
    /\ \/ /\ model' = [model EXCEPT !.strategy = "ok"]
          /\ pc' = "scoped_build"
       \/ /\ model' = [model EXCEPT !.strategy = "raised"]
          /\ pc' = "fallback_build"
    /\ UNCHANGED <<dataVars, train_data, valid_data, test_data, fit, calls,
                   result, gen, lastItem>>

\* Faulty variant of ScopedBuild: no except clause, the error of the scoped build
\* ends the script.
ScopedBuildUncaught ==
    /\ pc = "scoped_build"
    /\ \/ /\ model' = [model EXCEPT !.kind = "mirrored", !.scoped = "ok"]
          /\ pc' = "make_train_data"
       \/ /\ model' = [model EXCEPT !.scoped = "raised"]
          /\ pc' = "crashed"
    /\ UNCHANGED <<dataVars, train_data, valid_data, test_data, fit, calls,
                   result, gen, lastItem>>

\* with strategy.scope(): model = build_model()
ScopedBuild ==
    /\ pc = "scoped_build"
    /\ \/ /\ model' = [model EXCEPT !.kind = "mirrored", !.scoped = "ok"]
          /\ pc' = "make_train_data"
       \/ /\ model' = [model EXCEPT !.scoped = "raised"]
          /\ pc' = "fallback_build"
    /\ UNCHANGED <<dataVars, train_data, valid_data, test_data, fit, calls,
                   result, gen, lastItem>>

\* except: model = build_model()
FallbackBuild ==
    /\ pc = "fallback_build"
    /\ \/ /\ model' = [model EXCEPT !.kind = "plain", !.fallback = "ok"]
          /\ pc' = "make_train_data"
       \/ /\ model' = [model EXCEPT !.fallback = "raised"]
          /\ pc' = "crashed"
    /\ UNCHANGED <<dataVars, train_data, valid_data, test_data, fit, calls,
                   result, gen, lastItem>>

----------------------------------------------------------------------------
(* Training and evaluation (lines 286-322).                                *)

EPOCHS == 4

MakeTrainData ==
    /\ pc = "make_train_data"
    /\ train_data' \in NewGenerator(Sentence1(train_df), Sentence2(train_df),
                                    y_train, BATCH_SIZE, TRUE, TRUE)
    /\ pc' = "make_valid_data"
    /\ UNCHANGED <<dataVars, model, valid_data, test_data, fit, calls, result,
                   gen, lastItem>>

MakeValidData ==
    /\ pc = "make_valid_data"
    /\ valid_data' \in NewGenerator(Sentence1(valid_df), Sentence2(valid_df),
                                    y_val, BATCH_SIZE, FALSE, TRUE)
    /\ pc' = "fit"
    /\ UNCHANGED <<dataVars, model, train_data, test_data, fit, calls, result,
                   gen, lastItem>>

\* model.fit_generator(train_data, steps_per_epoch=..., validation_data=...,
\* validation_steps=..., epochs=EPOCHS)
FitCall ==
    /\ pc = "fit"
    /\ fit' = [NoFit EXCEPT
                 !.steps_per_epoch = GenLen(train_data) \div BATCH_SIZE,
                 !.validation_steps = GenLen(valid_data) \div BATCH_SIZE]
    /\ pc' = "train"
    /\ UNCHANGED <<dataVars, model, train_data, valid_data, test_data, calls,
                   result, gen, lastItem>>

\* One training step: the framework asks train_data for a batch it has not
\* had in this epoch (it visits the batches in an order of its own).
TrainStep ==
    /\ pc = "train"
    /\ fit.step < fit.steps_per_epoch
    /\ \E idx \in (0..(GenLen(train_data) - 1)) \ fit.requested :
          /\ lastItem' = GetItem(train_data, idx)
          /\ fit' = [fit EXCEPT !.step = @ + 1, !.requested = @ \cup {idx}]
    /\ UNCHANGED <<pc, dataVars, model, train_data, valid_data, test_data,
                   calls, result, gen>>

\* One validation step at the end of the epoch: the batches in order.
ValStep ==
    /\ pc = "train"
    /\ fit.step = fit.steps_per_epoch
    /\ fit.vstep < fit.validation_steps
    /\ lastItem' = GetItem(valid_data, fit.vstep)
    /\ fit' = [fit EXCEPT !.vstep = @ + 1]
    /\ UNCHANGED <<pc, dataVars, model, train_data, valid_data, test_data,
                   calls, result, gen>>

\* The epoch ends: the framework calls on_epoch_end.
FitEpochEnd ==
    /\ pc = "train"
    /\ fit.step = fit.steps_per_epoch
    /\ fit.vstep = fit.validation_steps
    /\ train_data' \in OnEpochEnd(train_data)
    /\ valid_data' \in OnEpochEnd(valid_data)
    /\ fit' = [fit EXCEPT !.epoch = @ + 1, !.step = 0, !.vstep = 0,
                          !.requested = {}]
    /\ lastItem' = NoItem
    /\ pc' = IF fit.epoch + 1 = EPOCHS THEN "make_test_data" ELSE "train"
    /\ UNCHANGED <<dataVars, model, test_data, calls, result, gen>>

MakeTestData ==
    /\ pc = "make_test_data"
    /\ test_data' \in NewGenerator(Sentence1(test_df), Sentence2(test_df),
                                   y_test, BATCH_SIZE, FALSE, TRUE)
    /\ pc' = "evaluate_call"
    /\ UNCHANGED <<dataVars, model, train_data, valid_data, fit, calls, result,
                   gen, lastItem>>

\* model.evaluate_generator(test_data, steps=..., verbose=1)
EvaluateCall ==
    /\ pc = "evaluate_call"
    /\ fit' = [fit EXCEPT !.eval_steps = GenLen(test_data) \div BATCH_SIZE,
                          !.estep = 0]
    /\ pc' = "evaluate"
    /\ UNCHANGED <<dataVars, model, train_data, valid_data, test_data, calls,
                   result, gen, lastItem>>

EvalStep ==
    /\ pc = "evaluate"
    /\ fit.estep < fit.eval_steps
    /\ lastItem' = GetItem(test_data, fit.estep)
    /\ fit' = [fit EXCEPT !.estep = @ + 1]
    /\ UNCHANGED <<pc, dataVars, model, train_data, valid_data, test_data,
                   calls, result, gen>>

EvaluateReturn ==
    /\ pc = "evaluate"
    /\ fit.estep = fit.eval_steps
    /\ pc' = "infer"
    /\ lastItem' = NoItem
    /\ UNCHANGED <<dataVars, runVars, gen>>

----------------------------------------------------------------------------
(* Inference (lines 327-363).  A probability is a whole number of          *)
(* thousandths.                                                            *)

LABELS == <<"CONTRADICTION", "ENTAILMENT", "NEUTRAL">>

\* The script calls check_similarity three times (lines 349, 356, 363).
InferCalls == 3

\* np.argmax: the first position of the maximum, 0-based.
ArgMax(v) ==
    CHOOSE i \in 0..(Len(v) - 1) :
        /\ \A j \in 1..Len(v) : v[j] <= v[i + 1]
        /\ \A j \in 1..i : v[j] < v[i + 1]

DigitChars == <<"0", "1", "2", "3", "4", "5", "6", "7", "8", "9">>

\* Rounding of p thousandths to hundredths, ties to even.
RoundHundredths(p) ==
    LET q == p \div 10
        r == p % 10
    IN  IF r > 5 \/ (r = 5 /\ q % 2 = 1) THEN q + 1 ELSE q

\* f"{x: .2f}%" for x = p / 1000 in [0, 1]: a blank for the sign, the
\* units digit, the point, two decimals and a percent sign.
FormatProba(p) ==
    LET h == RoundHundredths(p)
    IN  <<" ", DigitChars[(h \div 100) + 1], ".",
          DigitChars[((h \div 10) % 10) + 1], DigitChars[(h % 10) + 1], "%">>

\* check_similarity(sentence1, sentence2), the model predicting proba.
CheckSimilarity(s1, s2, proba) ==
    LET sentence1 == <<Str(s1)>>
        sentence2 == <<Str(s2)>>
        data      == CHOOSE g \in NewGenerator(sentence1, sentence2, None,
                                               1, FALSE, FALSE) : TRUE
        idx       == ArgMax(proba)
    IN  [made      |-> TRUE,
         test_data |-> data,
         batches   |-> [i \in 1..GenLen(data) |-> GetItem(data, i - 1)],
         proba     |-> proba,
         pred      |-> LABELS[idx + 1],
         text      |-> FormatProba(proba[idx + 1])]

\* What model.predict can return for one example: three class
\* probabilities that sum to 1.
Probas ==
    {<<1000, 0, 0>>, <<125, 750, 125>>, <<333, 333, 334>>,
     <<250, 375, 375>>, <<8, 4, 988>>, <<0, 125, 875>>}

\* The sentence pairs of lines 347-348, 354-355 and 361-362, by their
\* numbers of word pieces.
ScriptPairs ==
    <<<<Sent(4, 5000), Sent(5, 5001)>>,
      <<Sent(8, 5002), Sent(9, 5003)>>,
      <<Sent(6, 5004), Sent(5, 5005)>>>>

CallCheckSimilarity ==
    /\ pc = "infer"
    /\ calls < InferCalls
    /\ \E proba \in Probas :
          result' = CheckSimilarity(ScriptPairs[calls + 1][1],
                                    ScriptPairs[calls + 1][2], proba)
    /\ calls' = calls + 1
    /\ UNCHANGED <<pc, dataVars, model, train_data, valid_data, test_data, fit,
                   gen, lastItem>>

----------------------------------------------------------------------------
(* The script from model construction on, the data prepared: the train    *)
(* and validation frames hold labelled rows only, the test frame holds a   *)
(* row of every kind, "-" included, as nothing filters it.                 *)

MaxTrain == 4
MaxEval == 4

Similarities == <<"contradiction", "entailment", "neutral", "-">>

RowAt(k, kinds) ==
    Row(Sent(1 + (k % 2), 2000 + k), Sent(2 - (k % 2), 3000 + k),
        Similarities[(k % kinds) + 1])

Rows(n, kinds) == [k \in 1..n |-> RowAt(k, kinds)]

Init ==
    /\ pc = "try_strategy"
    /\ \E nt \in 0..MaxTrain, ne \in 0..MaxEval :
          /\ csv = [train |-> Rows(nt, 3), valid |-> Rows(ne, 3),
                    test |-> Rows(ne, 4)]
          /\ train_df = WithLabels(Frame(Rows(nt, 3)))
          /\ valid_df = WithLabels(Frame(Rows(ne, 3)))
          /\ test_df = WithLabels(Frame(Rows(ne, 4)))
          /\ y_train = Some(ToCategorical(LabelColumn(Rows(nt, 3)), 3))
          /\ y_val = Some(ToCategorical(LabelColumn(Rows(ne, 3)), 3))
          /\ y_test = Some(ToCategorical(LabelColumn(Rows(ne, 4)), 3))
    /\ RunIdle
    /\ GenIdle

Next ==
    \/ TryStrategy
    \/ ScopedBuild
    \/ FallbackBuild
    \/ MakeTrainData
    \/ MakeValidData
    \/ FitCall
    \/ TrainStep
    \/ ValStep
    \/ FitEpochEnd
    \/ MakeTestData
    \/ EvaluateCall
    \/ EvalStep
    \/ EvaluateReturn
    \/ CallCheckSimilarity

Spec == Init /\ [][Next]_vars

----------------------------------------------------------------------------
(* The generator on its own: any arrays, batch size and flags; the calls   *)
(* are those of the Sequence protocol, on_epoch_end and __getitem__(idx)   *)
(* for idx in range(len(gen)).                                             *)

InitGen ==
    /\ \E d \in Datasets, b \in 1..MaxBatch, shuffle \in BOOLEAN,
          train \in BOOLEAN, withLabels \in BOOLEAN :
          /\ train => withLabels
          /\ gen \in NewGenerator(Column(d, 1), Column(d, 2),
                                  IF withLabels THEN Some(Column(d, 3)) ELSE None,
                                  b, shuffle, train)
    /\ lastItem = NoItem
    /\ pc = "generator"
    /\ csv = [train |-> <<>>, valid |-> <<>>, test |-> <<>>]
    /\ train_df = Frame(<<>>) /\ valid_df = Frame(<<>>) /\ test_df = Frame(<<>>)
    /\ y_train = None /\ y_val = None /\ y_test = None
    /\ RunIdle

\* The framework asks for batch idx.
RequestBatch ==
    /\ pc = "generator"
    /\ \E idx \in 0..(GenLen(gen) - 1) : lastItem' = GetItem(gen, idx)
    /\ UNCHANGED <<gen, scriptVars>>

\* The framework ends the epoch; the batches of the epoch are consumed.
EpochEnd ==
    /\ pc = "generator"
    /\ gen' \in OnEpochEnd(gen)
    /\ lastItem' = NoItem
    /\ UNCHANGED scriptVars

NextGen == RequestBatch \/ EpochEnd

SpecGen == InitGen /\ [][NextGen]_vars

----------------------------------------------------------------------------
(* Properties of the generator.                                            *)

NumExamples == Len(gen.sentence1)

BatchReturned == lastItem.kind = "batch"

\* C1: __len__ is floor(n / b), the q with q*b <= n < (q+1)*b, and every
\* batch __getitem__ returns holds exactly b examples, never fewer.
C1_FullBatchesOnly ==
    /\ GenLen(gen) * gen.batch_size <= NumExamples
    /\ NumExamples < (GenLen(gen) + 1) * gen.batch_size
    /\ BatchReturned =>
          /\ Len(lastItem.indexes) = gen.batch_size
          /\ Len(lastItem.input_ids) = gen.batch_size
          /\ Len(lastItem.masks) = gen.batch_size
          /\ Len(lastItem.token_type_ids) = gen.batch_size
          /\ lastItem.hasLabels => Len(lastItem.labels) = gen.batch_size

\* The last full batch was returned by a generator whose example count is
\* no multiple of its batch size: the tail examples form no batch.
C1_Witness ==
    /\ BatchReturned
    /\ gen.batch_size >= 2
    /\ NumExamples % gen.batch_size # 0
    /\ lastItem.idx = GenLen(gen) - 1

\* C4: the index ordering is a permutation of 0..n-1, every example index
\* exactly once, after construction and after every on_epoch_end.
C4_IndexesArePermutation ==
    /\ Len(gen.indexes) = NumExamples
    /\ \A i \in 0..(NumExamples - 1) :
          Cardinality({k \in 1..Len(gen.indexes) : gen.indexes[k] = i}) = 1
    /\ Range(gen.indexes) \subseteq 0..(NumExamples - 1)

\* A shuffling generator holds an ordering that is not the identity.
C4_Witness ==
    /\ gen.shuffle
    /\ NumExamples = MaxExamples
    /\ gen.indexes # Arange(NumExamples)
    /\ BatchReturned

\* C5: on_epoch_end and __getitem__ leave the arrays and the flags alone;
\* without shuffle the ordering is the identity after every reset, and
\* __getitem__(i) returns examples i*b .. i*b+b-1.
C5_OnlyOrderingChanges ==
    /\ [][/\ gen'.sentence1 = gen.sentence1
          /\ gen'.sentence2 = gen.sentence2
          /\ gen'.labels = gen.labels
          /\ gen'.batch_size = gen.batch_size
          /\ gen'.shuffle = gen.shuffle
          /\ gen'.train = gen.train
          /\ (lastItem'.kind # "none" => gen'.indexes = gen.indexes)]_vars
    /\ [](~gen.shuffle =>
            /\ gen.indexes = Arange(NumExamples)
            /\ BatchReturned =>
                 lastItem.indexes =
                    [k \in 1..gen.batch_size |->
                        lastItem.idx * gen.batch_size + k - 1])

\* An unshuffled generator returned a batch after the first one.
C5_Witness ==
    /\ ~gen.shuffle
    /\ BatchReturned
    /\ lastItem.idx >= 1

\* C6: in training mode the batch carries labels, the k-th label and the
\* k-th encoded pair being those of the same example index under the
\* current ordering; in inference mode no labels are returned or read.
C6_LabelsFollowMode ==
    /\ BatchReturned /\ gen.train =>
          /\ lastItem.hasLabels
          /\ Len(lastItem.labels) = Len(lastItem.input_ids)
          /\ \A k \in 1..Len(lastItem.input_ids) :
                LET i == gen.indexes[lastItem.idx * gen.batch_size + k]
                    e == EncodePlus(gen.sentence1[i + 1], gen.sentence2[i + 1])
                IN  /\ lastItem.labels[k] = gen.labels.rows[i + 1]
                    /\ lastItem.input_ids[k] = e.input_ids
                    /\ lastItem.masks[k] = e.attention_mask
                    /\ lastItem.token_type_ids[k] = e.token_type_ids
    /\ ~gen.train =>
          /\ ~lastItem.hasLabels
          /\ ~lastItem.labelsRead
          /\ lastItem.labels = <<>>

\* A shuffled training batch whose examples are out of array order and
\* carry different labels.
C6_Witness ==
    /\ BatchReturned
    /\ gen.train
    /\ gen.shuffle
    /\ Len(lastItem.labels) >= 2
    /\ lastItem.indexes[1] > lastItem.indexes[2]
    /\ lastItem.labels[1] # lastItem.labels[2]

\* C7: in every returned batch the token-id, attention-mask and segment-id
\* sequences of every example have length exactly MAXLEN.
C7_AllSequencesMaxLen ==
    BatchReturned =>
        \A k \in 1..Len(lastItem.input_ids) :
            /\ Len(lastItem.input_ids[k]) = MAXLEN
            /\ Len(lastItem.masks[k]) = MAXLEN
            /\ Len(lastItem.token_type_ids[k]) = MAXLEN

----------------------------------------------------------------------------
(* Properties of the data preparation.                                     *)

Count(rows, similarity) ==
    Cardinality({k \in 1..Len(rows) : rows[k].similarity = similarity})

NoUnlabeled(rows) == \A k \in 1..Len(rows) : rows[k].similarity # "-"

\* Exactly the "-" rows of before are gone from after.
OnlyUnlabeledDropped(before, after) ==
    /\ NoUnlabeled(after)
    /\ Len(after) = Len(before) - Count(before, "-")
    /\ \A s \in Range(Similarities) \ {"-"} :
          Count(after, s) = Count(before, s)

\* C2: in the train, validation and test splits alike every "-" row is
\* removed before label encoding, and only those rows (one "-" row lowers
\* the row count by one), so no "-" row is ever one-hot encoded.
C2_UnlabeledRowsDropped ==
    /\ pc \notin {"dropna", "filter_train"} =>
          OnlyUnlabeledDropped(DropNaRows(csv.train), train_df.rows)
    /\ pc \notin {"dropna", "filter_train", "filter_valid"} =>
          OnlyUnlabeledDropped(csv.valid, valid_df.rows)
    /\ ~train_df.label.isNone => NoUnlabeled(train_df.rows)
    /\ ~valid_df.label.isNone => NoUnlabeled(valid_df.rows)
    /\ ~test_df.label.isNone =>
          OnlyUnlabeledDropped(csv.test, test_df.rows)

IsOneHotAt(v, c) ==
    /\ Len(v) = 3
    /\ \A j \in 1..3 : v[j] = IF j = c + 1 THEN 1 ELSE 0

Matches(row, v) ==
    /\ \E c \in 0..2 : IsOneHotAt(v, c)
    /\ row.similarity = "contradiction" <=> IsOneHotAt(v, 0)
    /\ row.similarity = "entailment" <=> IsOneHotAt(v, 1)
    /\ row.similarity = "neutral" <=> IsOneHotAt(v, 2)

Encoded(df, y) ==
    ~y.isNone =>
        /\ Len(y.rows) = Len(df.rows)
        /\ \A k \in 1..Len(df.rows) : Matches(df.rows[k], y.rows[k])

\* C3: every example that is label encoded, in any split, gets a one-hot
\* vector of length 3 whose 1 is at index 0 for contradiction, 1 for
\* entailment, 2 for neutral, and at index 2 for neutral rows only.
C3_OneHotMatchesLabel ==
    /\ Encoded(train_df, y_train)
    /\ Encoded(valid_df, y_val)
    /\ Encoded(test_df, y_test)

----------------------------------------------------------------------------
(* Properties of the script.                                               *)

Constructing == pc \in {"try_strategy", "scoped_build", "fallback_build"}

\* C9 as stated: construction always ends with one usable model and no
\* error surfaces.
C9_AlwaysOneModel ==
    /\ pc # "crashed"
    /\ ~Constructing => model.kind \in {"mirrored", "plain"}

\* C9 amended: the distributed attempt comes first; any failure inside it
\* runs the fallback build and is not surfaced; a successful attempt leaves
\* the fallback unrun; construction ends with exactly one model unless the
\* fallback build itself raises, which is the only error that surfaces.
C9_FallbackOnFailure ==
    /\ model.strategy = "raised" => model.scoped = "untried"
    /\ model.scoped # "untried" => model.strategy = "ok"
    /\ (model.strategy = "raised" \/ model.scoped = "raised") =>
          \/ pc = "fallback_build" /\ model.fallback = "untried"
          \/ model.fallback # "untried"
    /\ model.scoped = "ok" =>
          model.fallback = "untried" /\ model.kind = "mirrored"
    /\ model.fallback = "ok" => model.kind = "plain" /\ model.scoped # "ok"
    /\ pc = "crashed" <=> model.fallback = "raised"
    /\ pc = "crashed" => model.kind = "none"
    /\ (~Constructing /\ pc # "crashed") =>
          /\ model.kind \in {"mirrored", "plain"}
          /\ (model.scoped = "ok") # (model.fallback = "ok")

\* The build inside the strategy scope raised and the fallback supplied
\* the model.
C9_Witness ==
    /\ pc = "make_train_data"
    /\ model.scoped = "raised"
    /\ model.kind = "plain"

\* The value a confidence text denotes, in units of 10^-5: the digits are
\* hundredths, and a percent sign divides by a hundred.
TextValue(text) ==
    LET d(c) == (CHOOSE i \in 1..10 : DigitChars[i] = c) - 1
        h    == 100 * d(text[2]) + 10 * d(text[4]) + d(text[5])
    IN  IF text[Len(text)] = "%" THEN 10 * h ELSE 1000 * h

\* C8: check_similarity runs one single-example, label-free, unshuffled
\* batch and returns the label of the most probable class with that
\* class's probability, a value in [0, 1].
C8_LabelWithProbability ==
    result.made =>
        /\ Len(result.test_data.sentence1) = 1
        /\ result.test_data.labels.isNone
        /\ ~result.test_data.shuffle
        /\ ~result.test_data.train
        /\ Len(result.batches) = 1
        /\ Len(result.batches[1].input_ids) = 1
        /\ ~result.batches[1].hasLabels
        /\ \E i \in 1..3 :
              /\ result.pred = LABELS[i]
              /\ \A j \in 1..3 : result.proba[j] <= result.proba[i]
              /\ TextValue(result.text) = 100 * result.proba[i]
              /\ TextValue(result.text) <= 100000

\* C10: training, validation and test evaluation run for as many steps as
\* their generator reports batches, so every full batch of the split is
\* requested once per epoch or pass.
C10_StepsCoverEveryBatch ==
    /\ pc = "train" =>
          /\ fit.steps_per_epoch = GenLen(train_data)
          /\ fit.validation_steps = GenLen(valid_data)
    /\ pc = "evaluate" => fit.eval_steps = GenLen(test_data)

====
